---- MODULE Spec2Model ----
(***************************************************************************)
(* A model of underpants.go, a single-sign-on gateway: signed session      *)
(* tokens, the shared session cache, the OAuth callback / bridge handshake *)
(* and the per-host dispatch in front of the backends.                     *)
(*                                                                         *)
(* Go strings are byte strings; they are modelled as sequences of byte     *)
(* values (ASCII codes), so that base64, JSON, URL escaping and the comma  *)
(* split are computed the way the code computes them.                      *)
(***************************************************************************)
EXTENDS Integers, Sequences, FiniteSets, TLC

VARIABLES cache, jar, issued, resp, tk

vars == <<cache, jar, issued, resp, tk>>

(***************************************************************************)
(* Byte-string helpers (package strings)                                   *)
(***************************************************************************)
Empty == << >>

Sub(s, a, b) == IF a > b THEN Empty ELSE SubSeq(s, a, b)

\* the literal lit stands in s at position i
LitAt(s, i, lit) ==
  i >= 1 /\ i + Len(lit) - 1 <= Len(s) /\ Sub(s, i, i + Len(lit) - 1) = lit

\* strings.HasPrefix
HasPrefix(s, p) == Len(s) >= Len(p) /\ Sub(s, 1, Len(p)) = p

\* strings.HasSuffix
HasSuffix(s, p) == Len(s) >= Len(p) /\ Sub(s, Len(s) - Len(p) + 1, Len(s)) = p

\* strings.IndexByte, 1-based; 0 when the byte does not occur
IndexByte(s, c) ==
  LET at == {i \in 1..Len(s) : s[i] = c}
  IN IF at = {} THEN 0 ELSE CHOOSE i \in at : \A j \in at : i <= j

\* the concatenation of the strings ss[lo..hi] (by halves)
RECURSIVE ConcatRange(_, _, _)
ConcatRange(ss, lo, hi) ==
  IF lo > hi THEN << >>
  ELSE IF lo = hi THEN ss[lo]
  ELSE LET mid == (lo + hi) \div 2
       IN ConcatRange(ss, lo, mid) \o ConcatRange(ss, mid + 1, hi)

Concat(ss) == ConcatRange(ss, 1, Len(ss))

\* the ASCII codes the code's literals use
Chr == [comma |-> 44, eq |-> 61, pct |-> 37, plus |-> 43, space |-> 32,
        quote |-> 34, bslash |-> 92, nl |-> 10, slash |-> 47, qmark |-> 63,
        amp |-> 38, colon |-> 58, lbrace |-> 123, rbrace |-> 125,
        dash |-> 45, under |-> 95, dot |-> 46, tilde |-> 126]

IsUpper(c) == c \in 65..90
IsLower(c) == c \in 97..122
IsDigit(c) == c \in 48..57
IsAlnum(c) == IsUpper(c) \/ IsLower(c) \/ IsDigit(c)

(***************************************************************************)
(* encoding/base64, URLEncoding                                            *)
(***************************************************************************)
\* the URL-safe alphabet: A-Z a-z 0-9 - _
B64Char(n) ==
  IF n < 26 THEN 65 + n
  ELSE IF n < 52 THEN 97 + (n - 26)
  ELSE IF n < 62 THEN 48 + (n - 52)
  ELSE IF n = 62 THEN Chr.dash ELSE Chr.under

\* decodeMap: -1 stands for 0xFF (not in the alphabet)
B64Val(c) ==
  IF IsUpper(c) THEN c - 65
  ELSE IF IsLower(c) THEN c - 97 + 26
  ELSE IF IsDigit(c) THEN c - 48 + 52
  ELSE IF c = Chr.dash THEN 62
  ELSE IF c = Chr.under THEN 63 ELSE 0 - 1

\* the j-th (0..3) character of the quantum encoding bytes a, b, c
B64Sextet(a, b, c, j) ==
  CASE j = 0 -> a \div 4
    [] j = 1 -> (a % 4) * 16 + (b \div 16)
    [] j = 2 -> (b % 16) * 4 + (c \div 64)
    [] j = 3 -> c % 64

\* the whole 3-byte quanta of src, 4 characters each
B64Quanta(src) ==
  [i \in 1..(4 * (Len(src) \div 3)) |->
     LET k == (i - 1) \div 4
     IN B64Char(B64Sextet(src[3 * k + 1], src[3 * k + 2], src[3 * k + 3],
                          (i - 1) % 4))]

\* the padded last quantum Close / EncodeToString emit for the 1 or 2
\* bytes left over
B64Tail(src) ==
  LET n == Len(src)
      r == n % 3
  IN IF r = 0 THEN << >>
     ELSE IF r = 1
       THEN <<B64Char(B64Sextet(src[n], 0, 0, 0)),
              B64Char(B64Sextet(src[n], 0, 0, 1)), Chr.eq, Chr.eq>>
       ELSE <<B64Char(B64Sextet(src[n - 1], src[n], 0, 0)),
              B64Char(B64Sextet(src[n - 1], src[n], 0, 1)),
              B64Char(B64Sextet(src[n - 1], src[n], 0, 2)), Chr.eq>>

\* base64.URLEncoding.EncodeToString
EncodeToString(src) == B64Quanta(src) \o B64Tail(src)

\* What a base64.NewEncoder stream has passed on to its writer after one
\* Write(src) when Close is never called: the whole quanta only; the 1 or 2
\* bytes left over stay in the encoder's buffer.
EncoderWrite(src) == B64Quanta(src)

\* base64.URLEncoding.DecodeString (also what base64.NewDecoder yields for
\* the whole input): quanta of 4 characters, the last one possibly padded
\* with one or two '='. The low bits of the last character that do not
\* belong to a byte are dropped without being looked at.
DecodeString(src) ==
  LET n == Len(src)
      pad == IF n >= 2 /\ src[n] = Chr.eq
               THEN (IF src[n - 1] = Chr.eq THEN 2 ELSE 1)
               ELSE 0
      m == 3 * (n \div 4) - pad
      ok == /\ n % 4 = 0
            /\ \A i \in 1..(n - pad) : B64Val(src[i]) >= 0
  IN IF ~ok THEN [ok |-> FALSE, bytes |-> << >>]
     ELSE [ok |-> TRUE,
           bytes |-> [i \in 1..m |->
              LET q == 4 * ((i - 1) \div 3)
                  j == (i - 1) % 3
              IN CASE j = 0 -> B64Val(src[q + 1]) * 4
                                 + (B64Val(src[q + 2]) \div 16)
                   [] j = 1 -> (B64Val(src[q + 2]) % 16) * 16
                                 + (B64Val(src[q + 3]) \div 4)
                   [] j = 2 -> (B64Val(src[q + 3]) % 4) * 64
                                 + B64Val(src[q + 4])]]

(***************************************************************************)
(* crypto/hmac with sha256.  The digest cannot be computed in TLA+; it is  *)
(* replaced by a keyed checksum of the same shape: a deterministic         *)
(* function of (key, message) that yields Sha256Size bytes.  Clients that  *)
(* do not hold the key are modelled by the strings they can build without  *)
(* it (see Forged, Spliced below), not by inverting this function.         *)
(***************************************************************************)
Sha256Size == 32

\* the map h -> h * a + b (mod) that absorbing the bytes s[lo..hi] one
\* after the other, h -> h * mul + byte + 1, amounts to; computed by halves
RECURSIVE Affine(_, _, _, _, _)
Affine(s, lo, hi, mul, mod) ==
  IF lo > hi THEN <<1, 0>>
  ELSE IF lo = hi THEN <<mul, (s[lo] + 1) % mod>>
  ELSE LET mid == (lo + hi) \div 2
           f == Affine(s, lo, mid, mul, mod)
           g == Affine(s, mid + 1, hi, mul, mod)
       IN <<(f[1] * g[1]) % mod, (f[2] * g[1] + g[2]) % mod>>

Absorb(h, s, mul, mod) ==
  LET Apply(f) == (h * f[1] + f[2]) % mod
  IN Apply(Affine(s, 1, Len(s), mul, mod))

\* h := hmac.New(sha256.New, key); h.Write(msg); h.Sum(nil)
hmacSum(k, msg) ==
  LET Sum(h1, h2) ==
        [i \in 1..Sha256Size |->
           (17 * (i \div 4)
              + (CASE i % 4 = 1 -> h1 % 256
                   [] i % 4 = 2 -> h1 \div 256
                   [] i % 4 = 3 -> h2 % 256
                   [] OTHER -> h2 \div 256)) % 256]
  IN Sum(Absorb(Absorb(7, k, 131, 32749) + 1, msg, 131, 32749),
         Absorb(Absorb(11, k, 137, 32768) + 1, msg, 137, 32768))

(***************************************************************************)
(* encoding/json for the user struct {Email, Name, Picture}                *)
(***************************************************************************)
NoUser == [Email |-> <<0>>, Name |-> <<0>>, Picture |-> <<0>>]

User(e, n, p) == [Email |-> e, Name |-> n, Picture |-> p]

\* the string escaping of the encoder, for the bytes the model uses:
\* '"' and '\' get a backslash
jsonEscape(s) ==
  Concat([i \in 1..Len(s) |->
            IF s[i] \in {Chr.quote, Chr.bslash}
              THEN <<Chr.bslash, s[i]>> ELSE <<s[i]>>])

KeyEmail == <<123, 34, 69, 109, 97, 105, 108, 34, 58, 34>>
KeyName == <<34, 44, 34, 78, 97, 109, 101, 34, 58, 34>>
KeyPicture == <<34, 44, 34, 80, 105, 99, 116, 117, 114, 101, 34, 58, 34>>

\* json.NewEncoder(w).Encode(u): the object, then a newline, in one Write:
\* {"Email":"..","Name":"..","Picture":".."}\n
jsonEncode(u) ==
  KeyEmail \o jsonEscape(u.Email) \o KeyName \o jsonEscape(u.Name)
    \o KeyPicture \o jsonEscape(u.Picture)
    \o <<Chr.quote, Chr.rbrace, Chr.nl>>

\* the rest of a JSON string whose opening quote has been read, from
\* position i (acc: the bytes read so far)
RECURSIVE jsonScanString(_, _, _)
jsonScanString(b, i, acc) ==
  IF i > Len(b) THEN [ok |-> FALSE, val |-> acc, next |-> i]
  ELSE IF b[i] = Chr.quote THEN [ok |-> TRUE, val |-> acc, next |-> i]
  ELSE IF b[i] = Chr.bslash
    THEN IF i + 1 <= Len(b) /\ b[i + 1] \in {Chr.quote, Chr.bslash}
           THEN jsonScanString(b, i + 2, Append(acc, b[i + 1]))
           ELSE [ok |-> FALSE, val |-> acc, next |-> i]
  ELSE jsonScanString(b, i + 1, Append(acc, b[i]))

\* json.NewDecoder(r).Decode(&u) on the objects the encoder writes and on
\* what is left of them when bytes are missing: one complete object is read
\* (what follows it is not looked at); input that ends before the closing
\* brace is io.ErrUnexpectedEOF.
jsonDecode(b) ==
  LET bad == [ok |-> FALSE, u |-> NoUser]
      Picture(e, n, p) ==
        IF ~LitAt(b, n.next, KeyPicture) \/ ~p.ok THEN bad
        ELSE IF ~LitAt(b, p.next, <<Chr.quote, Chr.rbrace>>) THEN bad
        ELSE [ok |-> TRUE, u |-> User(e.val, n.val, p.val)]
      Name(e, n) ==
        IF ~LitAt(b, e.next, KeyName) \/ ~n.ok THEN bad
        ELSE Picture(e, n, jsonScanString(b, n.next + Len(KeyPicture), << >>))
      Email(e) ==
        IF ~HasPrefix(b, KeyEmail) \/ ~e.ok THEN bad
        ELSE Name(e, jsonScanString(b, e.next + Len(KeyName), << >>))
  IN Email(jsonScanString(b, Len(KeyEmail) + 1, << >>))

(***************************************************************************)
(* The signed session token                                                *)
(***************************************************************************)
\* user.encode: JSON through a base64 stream into both the HMAC and the
\* buffer b; the base64 stream is never closed.
encode(u, key) ==
  LET Sign(b) == EncodeToString(hmacSum(key, b)) \o <<Chr.comma>> \o b
  IN Sign(EncoderWrite(jsonEncode(u)))

\* validMessage: decode the signature, recompute the code over msg,
\* compare length and bytes
validMessage(key, sig, msg) ==
  LET Equal(dec, v) ==
        /\ dec.ok
        /\ Len(v) = Len(dec.bytes)
        /\ \A i \in 1..Len(dec.bytes) : dec.bytes[i] = v[i]
  IN Equal(DecodeString(sig), hmacSum(key, msg))

\* validMessage: how many times the loop compares s[i] with v[i] before the
\* function returns (0 when it returns before the loop), and the length of
\* the decoded signature (-1 when sig is no base64)
validMessageCompared(key, sig, msg) ==
  LET First(dec, v, diff) ==
        IF diff = {} THEN Len(dec.bytes)
        ELSE CHOOSE i \in diff : \A j \in diff : i <= j
      Loop(dec, v) ==
        IF ~dec.ok THEN [sigLen |-> -1, compared |-> 0]
        ELSE IF Len(v) # Len(dec.bytes)
          THEN [sigLen |-> Len(dec.bytes), compared |-> 0]
        ELSE [sigLen |-> Len(dec.bytes),
              compared |-> First(dec, v, {i \in 1..Len(dec.bytes) :
                                            dec.bytes[i] # v[i]})]
  IN Loop(DecodeString(sig), hmacSum(key, msg))

\* strings.SplitN(c, ",", 2)
SplitN2(c) ==
  LET At(i) == IF i = 0 THEN <<c>>
               ELSE <<Sub(c, 1, i - 1), Sub(c, i + 1, Len(c))>>
  IN At(IndexByte(c, Chr.comma))

\* decodeUser: [ok, u]; ok = FALSE stands for the returned error
decodeUser(c, key) ==
  LET bad == [ok |-> FALSE, u |-> NoUser]
      Payload(r) == IF ~r.ok THEN bad ELSE jsonDecode(r.bytes)
      Parts(s) ==
        IF Len(s) # 2 THEN bad
        ELSE IF ~validMessage(key, s[1], s[2]) THEN bad
        ELSE Payload(DecodeString(s[2]))
  IN Parts(SplitN2(c))

(***************************************************************************)
(* net/url: escaping, query strings, URL parsing                           *)
(***************************************************************************)
HexDigits == <<48, 49, 50, 51, 52, 53, 54, 55, 56, 57, 65, 66, 67, 68, 69, 70>>

IsHex(c) == IsDigit(c) \/ c \in 65..70 \/ c \in 97..102

Unhex(c) == IF IsDigit(c) THEN c - 48
            ELSE IF c \in 97..102 THEN c - 97 + 10 ELSE c - 65 + 10

\* the reserved characters of RFC 3986 section 2.2 that shouldEscape lists
Reserved == {36, 38, 43, 44, 47, 58, 59, 61, 63, 64}

\* shouldEscape(c, mode), mode "query" (encodeQueryComponent) or "path"
shouldEscape(c, mode) ==
  IF IsAlnum(c) \/ c \in {Chr.dash, Chr.under, Chr.dot, Chr.tilde} THEN FALSE
  ELSE IF c \in Reserved
    THEN (IF mode = "path" THEN c = Chr.qmark ELSE TRUE)
  ELSE TRUE

escape(s, mode) ==
  Concat([i \in 1..Len(s) |->
            IF s[i] = Chr.space /\ mode = "query" THEN <<Chr.plus>>
            ELSE IF shouldEscape(s[i], mode)
              THEN <<Chr.pct, HexDigits[(s[i] \div 16) + 1],
                     HexDigits[(s[i] % 16) + 1]>>
            ELSE <<s[i]>>])

\* url.QueryEscape
QueryEscape(s) == escape(s, "query")

\* every '%' of s is followed by two hex digits
escapesOK(s) ==
  \A i \in 1..Len(s) :
    s[i] = Chr.pct => i + 2 <= Len(s) /\ IsHex(s[i + 1]) /\ IsHex(s[i + 2])

\* unescape(s, mode): [ok, s]; ok = FALSE stands for EscapeError.  In a
\* string whose escapes are well formed, the bytes after a '%' are its two
\* hex digits.
unescape(s, mode) ==
  IF ~escapesOK(s) THEN [ok |-> FALSE, s |-> << >>]
  ELSE [ok |-> TRUE,
        s |-> Concat([i \in 1..Len(s) |->
                IF s[i] = Chr.pct
                  THEN <<Unhex(s[i + 1]) * 16 + Unhex(s[i + 2])>>
                ELSE IF (i > 1 /\ s[i - 1] = Chr.pct)
                          \/ (i > 2 /\ s[i - 2] = Chr.pct)
                  THEN << >>
                ELSE IF s[i] = Chr.plus /\ mode = "query" THEN <<Chr.space>>
                ELSE <<s[i]>>])]

\* url.QueryUnescape
QueryUnescape(s) == unescape(s, "query")

\* a < b in the byte order sort.Strings uses
RECURSIVE Less(_, _)
Less(a, b) ==
  IF b = << >> THEN FALSE
  ELSE IF a = << >> THEN TRUE
  ELSE IF Head(a) # Head(b) THEN Head(a) < Head(b)
  ELSE Less(Tail(a), Tail(b))

\* url.Values.Encode for single-valued keys: vals is a function from key
\* strings to value strings; "key=QueryEscape(value)" joined by '&', the
\* keys sorted
RECURSIVE ValuesEncodeFrom(_, _)
ValuesEncodeFrom(vals, keys) ==
  LET Join(k, rest) ==
        QueryEscape(k) \o <<Chr.eq>> \o QueryEscape(vals[k])
          \o (IF rest = << >> THEN << >> ELSE <<Chr.amp>> \o rest)
      From(k) == Join(k, ValuesEncodeFrom(vals, keys \ {k}))
  IN IF keys = {} THEN << >>
     ELSE From(CHOOSE x \in keys : \A y \in keys \ {x} : Less(x, y))

ValuesEncode(vals) == ValuesEncodeFrom(vals, DOMAIN vals)

\* s cut at the first byte c: <<before, after>>, c in neither; <<s, "">>
\* when c does not occur
Cut(s, c) ==
  LET At(i) == IF i = 0 THEN <<s, << >> >>
               ELSE <<Sub(s, 1, i - 1), Sub(s, i + 1, Len(s))>>
  IN At(IndexByte(s, c))

\* Request.FormValue(key) on a raw query string: the first value of key
\* among the '&'-separated pairs, each side unescaped; a pair that does not
\* unescape is skipped; << >> when the key is absent
RECURSIVE FormValue(_, _)
FormValue(query, key) ==
  LET Value(pair, k, v, rest) ==
        IF pair # << >> /\ k.ok /\ v.ok /\ k.s = key THEN v.s
        ELSE FormValue(rest, key)
      KeyValue(pair, kv, rest) ==
        Value(pair, unescape(kv[1], "query"), unescape(kv[2], "query"), rest)
      Pair(pr) == KeyValue(pr[1], Cut(pr[1], Chr.eq), pr[2])
  IN IF query = << >> THEN << >> ELSE Pair(Cut(query, Chr.amp))

SchemeHttp == <<104, 116, 116, 112>>
SlashSlash == <<47, 47>>

\* getscheme(rawurl): [ok, scheme, rest].  The scheme is the letters (after
\* the first also digits, '+', '-', '.') in front of a ':'; a ':' in front
\* is the error "missing protocol scheme"; any other byte ends the search
\* with no scheme.
getscheme(rawurl) ==
  LET IsSchemeByte(i) ==
        \/ IsUpper(rawurl[i]) \/ IsLower(rawurl[i])
        \/ i > 1 /\ (IsDigit(rawurl[i])
                       \/ rawurl[i] \in {Chr.plus, Chr.dash, Chr.dot})
      none == [ok |-> TRUE, scheme |-> << >>, rest |-> rawurl]
      Stop(i) ==
        IF rawurl[i] # Chr.colon THEN none
        ELSE IF i = 1 THEN [ok |-> FALSE, scheme |-> << >>, rest |-> << >>]
        ELSE [ok |-> TRUE, scheme |-> Sub(rawurl, 1, i - 1),
              rest |-> Sub(rawurl, i + 1, Len(rawurl))]
      stops == {i \in 1..Len(rawurl) : ~IsSchemeByte(i)}
  IN IF stops = {} THEN none
     ELSE Stop(CHOOSE i \in stops : \A j \in stops : i <= j)

\* the authority and the path of what follows the scheme: "//" introduces
\* the host, which ends in front of the next '/'
authorityPath(rest) ==
  LET At(auth, i) ==
        IF i = 0 THEN [Host |-> auth, RawPath |-> << >>]
        ELSE [Host |-> Sub(auth, 1, i - 1), RawPath |-> Sub(auth, i, Len(auth))]
      Authority(auth) == At(auth, IndexByte(auth, Chr.slash))
  IN IF HasPrefix(rest, SlashSlash) THEN Authority(Sub(rest, 3, Len(rest)))
     ELSE [Host |-> << >>, RawPath |-> rest]

\* url.Parse of a URL without fragment: [ok, Scheme, Host, Path, RawQuery];
\* the path is unescaped and a malformed escape is an error
UrlParse(raw) ==
  LET bad == [ok |-> FALSE, Scheme |-> << >>, Host |-> << >>,
              Path |-> << >>, RawQuery |-> << >>]
      Path(g, q, ap, path) ==
        IF ~path.ok THEN bad
        ELSE [ok |-> TRUE, Scheme |-> g.scheme, Host |-> ap.Host,
              Path |-> path.s, RawQuery |-> q[2]]
      Authority(g, q, ap) == Path(g, q, ap, unescape(ap.RawPath, "path"))
      Query(g, q) == Authority(g, q, authorityPath(q[1]))
      Scheme(g) == IF ~g.ok THEN bad ELSE Query(g, Cut(g.rest, Chr.qmark))
  IN Scheme(getscheme(raw))

\* URL.String() of a URL with scheme and host
UrlString(u) ==
  u.Scheme \o <<Chr.colon>> \o SlashSlash \o u.Host \o escape(u.Path, "path")
    \o (IF u.RawQuery = << >> THEN << >> ELSE <<Chr.qmark>> \o u.RawQuery)

(***************************************************************************)
(* path.Clean and http.Redirect                                            *)
(***************************************************************************)
\* the '/'-separated elements of s, left to right
RECURSIVE Elements(_)
Elements(s) ==
  LET At(i) == IF i = 0 THEN <<s>>
               ELSE <<Sub(s, 1, i - 1)>> \o Elements(Sub(s, i + 1, Len(s)))
  IN At(IndexByte(s, Chr.slash))

\* the elements path.Clean keeps of a rooted path: empty and "." elements
\* are dropped, ".." drops the element before it (nothing at the root)
RECURSIVE CleanElements(_, _)
CleanElements(els, kept) ==
  IF els = << >> THEN kept
  ELSE LET e == Head(els)
       IN IF e = << >> \/ e = <<Chr.dot>>
            THEN CleanElements(Tail(els), kept)
          ELSE IF e = <<Chr.dot, Chr.dot>>
            THEN CleanElements(Tail(els),
                   IF kept = << >> THEN kept ELSE Sub(kept, 1, Len(kept) - 1))
          ELSE CleanElements(Tail(els), Append(kept, e))

RECURSIVE JoinRooted(_)
JoinRooted(els) ==
  IF els = << >> THEN << >>
  ELSE <<Chr.slash>> \o Head(els) \o JoinRooted(Tail(els))

\* path.Clean of a rooted path
pathClean(p) ==
  LET Rooted(j) == IF j = << >> THEN <<Chr.slash>> ELSE j
  IN Rooted(JoinRooted(CleanElements(Elements(p), << >>)))

\* path.Split(p): the directory of p, up to and with its last '/'
pathDir(p) ==
  LET Dir(els) == JoinRooted(Sub(els, 2, Len(els) - 1)) \o <<Chr.slash>>
  IN Dir(Elements(p))

\* the Location header http.Redirect(w, r, urlStr, code) writes for a
\* request whose path is reqPath: a URL with a scheme is left alone; one
\* without is made rooted (relative to the directory of reqPath), its path
\* is cleaned with path.Clean, a trailing slash and the query are kept.
httpRedirect(urlStr, reqPath) ==
  LET Trailing(pth, cl, query) ==
        cl \o (IF HasSuffix(pth, <<Chr.slash>>) /\ ~HasSuffix(cl, <<Chr.slash>>)
                 THEN <<Chr.slash>> ELSE << >>) \o query
      Clean(pth, query) == Trailing(pth, pathClean(pth), query)
      Query(abs, i) ==
        IF i = 0 THEN Clean(abs, << >>)
        ELSE Clean(Sub(abs, 1, i - 1), Sub(abs, i, Len(abs)))
      Rooted(abs) == Query(abs, IndexByte(abs, Chr.qmark))
      Parsed(u) ==
        IF ~u.ok \/ u.Scheme # << >> THEN urlStr
        ELSE IF urlStr = << >> \/ urlStr[1] # Chr.slash
          THEN Rooted(pathDir(reqPath) \o urlStr)
        ELSE Rooted(urlStr)
  IN Parsed(UrlParse(urlStr))

(***************************************************************************)
(* Configuration (conf) and the constants of the program                   *)
(***************************************************************************)
authPathPrefix == <<47, 95, 95, 97, 117, 116, 104, 95, 95, 47>>  \* "/__auth__/"

LogoutPath == authPathPrefix \o <<108, 111, 103, 111, 117, 116>>   \* + "logout"

CookieMaxAge == 3600

Port == 80

RECURSIVE Itoa(_)
Itoa(n) == IF n < 10 THEN <<48 + n>> ELSE Itoa(n \div 10) \o <<48 + (n % 10)>>

\* hostOf(name, port)
hostOf(name, port) ==
  IF port \in {80, 443} THEN name ELSE name \o <<Chr.colon>> \o Itoa(port)

\* conf.Host, conf.Oauth.Domain, conf.Routes of the modelled deployment:
\* hub "hub", suffix "@o", routes l1 -> b1 and l2 -> b2
ConfHost == <<104, 117, 98>>
ConfDomain == <<64, 111>>
ConfRoutes == <<[From |-> <<108, 49>>, To |-> <<98, 49>>],
                [From |-> <<108, 50>>, To |-> <<98, 50>>]>>

\* the disp values setup registers, one per route
Disps == [i \in 1..Len(ConfRoutes) |->
            [from |-> hostOf(ConfRoutes[i].From, Port),
             to |-> ConfRoutes[i].To, host |-> ConfHost,
             domain |-> ConfDomain]]

\* the secret key newKey returned at start-up (a short stand-in for the 64
\* random bytes), and a key a hostile client makes up
key == <<1, 2>>
EvilKey == <<3, 4>>

AuthURL == <<104, 116, 116, 112, 115, 58, 47, 47, 97, 99, 99, 111, 117, 110,
             116, 115, 46, 103, 111, 111, 103, 108, 101, 46, 99, 111, 109, 47,
             111, 47, 111, 97, 117, 116, 104, 50, 47, 97, 117, 116, 104>>

Q == [c |-> <<99>>, p |-> <<112>>, code |-> <<99, 111, 100, 101>>,
      state |-> <<115, 116, 97, 116, 101>>, hd |-> <<104, 100>>,
      response_type |-> <<114, 101, 115, 112, 111, 110, 115, 101, 95, 116,
                          121, 112, 101>>]

\* oauth.Config.AuthCodeURL(state): the authorization URL with the request
\* parameters as a query (client_id, redirect_uri, scope, access_type and
\* approval_prompt, which do not depend on the request, are left out)
oauthAuthCodeURL(state) ==
  AuthURL \o <<Chr.qmark>>
    \o ValuesEncode((Q.response_type :> Q.code) @@ (Q.state :> state))

\* urlFor with the bug of building the URL from the path alone
urlForDropsQuery(host, path, query) ==
  [ok |-> TRUE, Scheme |-> SchemeHttp, Host |-> host, Path |-> path,
   RawQuery |-> << >>]

\* urlFor(host, r): the request URL with the host replaced and scheme http
urlFor(host, path, query) ==
  [ok |-> TRUE, Scheme |-> SchemeHttp, Host |-> host, Path |-> path,
   RawQuery |-> query]

\* disp.AuthCodeUrl(u)
AuthCodeUrl(d, u) ==
  oauthAuthCodeURL(UrlString(u)) \o <<Chr.amp>>
    \o ValuesEncode(Q.hd :> d.domain)

(***************************************************************************)
(* http.ServeMux as setup fills it                                         *)
(***************************************************************************)
MuxEntries ==
  {[pattern |-> Disps[i].from \o <<Chr.slash>>, kind |-> "disp", route |-> i] :
      i \in 1..Len(Disps)}
  \cup {[pattern |-> <<Chr.slash>>, kind |-> "admin", route |-> 0],
        [pattern |-> authPathPrefix, kind |-> "callback", route |-> 0],
        [pattern |-> LogoutPath, kind |-> "logout", route |-> 0]}

NoHandler == [pattern |-> << >>, kind |-> "none", route |-> 0]

\* pathMatch(pattern, path): a pattern ending in '/' matches as a prefix,
\* any other pattern only itself
pathMatch(pattern, path) ==
  IF pattern[Len(pattern)] # Chr.slash THEN pattern = path
  ELSE HasPrefix(path, pattern)

\* ServeMux.match: the longest pattern that matches
muxMatch(path) ==
  LET Longest(ms) ==
        IF ms = {} THEN NoHandler
        ELSE CHOOSE e \in ms : \A f \in ms : Len(f.pattern) <= Len(e.pattern)
  IN Longest({e \in MuxEntries : pathMatch(e.pattern, path)})

\* ServeMux.handler: host-specific patterns take precedence over generic ones
muxHandler(host, path) ==
  LET Specific(h) == IF h.kind # "none" THEN h ELSE muxMatch(path)
  IN Specific(muxMatch(host \o path))

(***************************************************************************)
(* The session cache (lilcache): a map of bounded size from key strings to *)
(* users.  Which entry makes room when the cache is full is not fixed.     *)
(***************************************************************************)
CacheCap == 1

EmptyCache == [k \in {} |-> NoUser]

\* cache.Get(k): hit = the returned time is not zero
CacheGet(c, k) ==
  IF k \in DOMAIN c THEN [hit |-> TRUE, u |-> c[k]]
  ELSE [hit |-> FALSE, u |-> NoUser]

\* cache.Put(k, v): the caches that can result
CachePut(c, k, v) ==
  IF k \in DOMAIN c \/ Cardinality(DOMAIN c) < CacheCap
    THEN {[x \in (DOMAIN c) \cup {k} |-> IF x = k THEN v ELSE c[x]]}
    ELSE {[x \in ((DOMAIN c) \ {victim}) \cup {k} |->
             IF x = k THEN v ELSE c[x]] : victim \in DOMAIN c}

(***************************************************************************)
(* The environment: the identity provider's accounts, the clients and what *)
(* they can send                                                           *)
(***************************************************************************)
\* the accounts of the identity provider: two of the organization "@o"
\* (serialized lengths 0 and 2 modulo 3) and one outsider
Ann == User(<<97, 64, 111>>, <<65, 110, 110>>, << >>)        \* a@o, Ann
Bo == User(<<98, 64, 111>>, <<66, 111>>, << >>)              \* b@o, Bo
Mal == User(<<109, 64, 120>>, <<77, 97, 108>>, << >>)        \* m@x, Mal

Profiles == {Ann, Bo, Mal}

\* what the provider does with a code: the exchange fails, the exchange
\* succeeds and the profile request fails, or it returns a profile
ProviderResults ==
  {[kind |-> "exchangeFail", profile |-> NoUser],
   [kind |-> "fetchFail", profile |-> NoUser]}
  \cup {[kind |-> "profile", profile |-> u] : u \in Profiles}

Hub == hostOf(ConfHost, Port)

\* the Host headers of the requests: the hub and the routes' from-hosts
Hosts == {Hub} \cup {Disps[i].from : i \in 1..Len(Disps)}

\* the clients: a browser, which keeps the cookies it is sent, follows the
\* flow and uses the hub and the first route; and any other client, which
\* sends what it likes to every host
Clients == {"browser", "other"}

BrowserHosts == {Hub, Disps[1].from}

\* a token a client without the key makes up for Ann under a key of its own
Forged == encode(Ann, EvilKey)

\* the signature of a token of the gateway put in front of the payload of
\* the made-up token
Spliced(t) == SplitN2(t)[1] \o <<Chr.comma>> \o SplitN2(Forged)[2]

Garbage == <<97, 98, 99>>          \* "abc"
BadEscape == <<37, 122, 122>>      \* "%zz"

\* a string with a comma whose signature part is no base64: "!,a"
BadSignature == <<33, 44, 97>>

\* what a client can build from a token t it has seen, to send as a cookie
\* and to send as parameter c
CookieForms(t) == {QueryEscape(t), QueryEscape(QueryEscape(t)), t,
                   QueryEscape(Spliced(t))}
ParamForms(t) == {t, QueryEscape(t), Spliced(t)}

\* what a client can send without having seen any token
CookiesUnsigned == {<< >>, BadEscape, Garbage, QueryEscape(BadSignature),
                    QueryEscape(Forged)}
ParamsUnsigned == {<< >>, Garbage, BadSignature, Forged}

\* the values of parameter p: "/d?q=1", "/x//y", "d"
PValues == {<<47, 100, 63, 113, 61, 49>>, <<47, 120, 47, 47, 121>>, <<100>>}

\* the values of parameter state: none, "http://l1/d?q=1", "http://ev/d"
\* (a host that is no route), ":bad" (no URL)
StateValues == {<< >>,
                <<104, 116, 116, 112, 58, 47, 47, 108, 49, 47, 100, 63, 113, 61, 49>>,
                <<104, 116, 116, 112, 58, 47, 47, 101, 118, 47, 100>>,
                <<58, 98, 97, 100>>}

CodeValues == {<< >>, <<107>>}     \* none, "k"

\* the request methods
Methods == {"GET", "POST"}

\* the request URLs outside the bridge prefix: "/" and "/d?q=1"
PlainURLs == {[path |-> <<Chr.slash>>, query |-> << >>],
              [path |-> <<47, 100>>, query |-> <<113, 61, 49>>]}

AuthPaths == {authPathPrefix, LogoutPath}

\* the values a client sends itself under the assertion header names (none,
\* or "root" under both) and whether the backend call succeeds
NoHeaders == [email |-> << >>, name |-> << >>]
Spoofed == [email |-> <<<<114, 111, 111, 116>>>>,
            name |-> <<<<114, 111, 111, 116>>>>]

Plain == [inHdrs |-> NoHeaders, bk |-> "ok"]

Deliveries == {Plain, [inHdrs |-> Spoofed, bk |-> "ok"],
               [inHdrs |-> NoHeaders, bk |-> "fail"]}

\* the URL serveHttpProxy redirects a request without identity to
authRedirect(d, rq) == AuthCodeUrl(d, urlFor(d.from, rq.path, rq.query))

\* bridgeRedirect with the bug of passing on the path of back alone
bridgeRedirectDropsQuery(back, v) ==
  SchemeHttp \o <<Chr.colon>> \o SlashSlash \o back.Host \o authPathPrefix
    \o <<Chr.qmark>> \o ValuesEncode((Q.c :> v) @@ (Q.p :> back.Path))

\* the URL the provider callback redirects to: the bridge endpoint of the
\* host of back, with parameters p and c
bridgeRedirect(back, v) ==
  SchemeHttp \o <<Chr.colon>> \o SlashSlash \o back.Host \o authPathPrefix
    \o <<Chr.qmark>>
    \o ValuesEncode((Q.c :> v)
         @@ (Q.p :> (back.Path \o (IF back.RawQuery # << >>
                                     THEN <<Chr.qmark>> \o back.RawQuery
                                     ELSE << >>))))

(***************************************************************************)
(* Cookies                                                                 *)
(***************************************************************************)
\* isCookieByte: the bytes net/http accepts in a cookie value
isCookieByte(c) ==
  \/ c = 33 \/ c \in 35..43 \/ c \in 45..58 \/ c \in 60..91 \/ c \in 93..126

\* r.Cookie(userCookieKey): the value of the cookie in the Cookie header
\* hdr (<< >>: none sent); a value with a byte that is no cookie byte is
\* dropped by the parser, which leaves no cookie
requestCookie(hdr) ==
  IF \A i \in 1..Len(hdr) : isCookieByte(hdr[i])
    THEN [present |-> hdr # << >>, Value |-> hdr]
    ELSE [present |-> FALSE, Value |-> << >>]

NoSetCookie == [set |-> FALSE, Value |-> << >>, Path |-> << >>, MaxAge |-> 0]

SetCookie(value, maxAge) ==
  [set |-> TRUE, Value |-> value, Path |-> <<Chr.slash>>, MaxAge |-> maxAge]

(***************************************************************************)
(* userFrom: the identity of a request                                     *)
(***************************************************************************)
\* userFrom(r, cache, key) for a request whose Cookie header is hdr:
\* found/u: the user returned (found = FALSE: nil); calls: the cache and
\* decode calls made, in order; put/putKey: the cache.Put it makes
userFrom(hdr, c, k) ==
  LET none == [found |-> FALSE, u |-> NoUser, calls |-> << >>,
               put |-> FALSE, putKey |-> << >>]
      Decoded(ck, d) ==
        IF ~d.ok THEN [none EXCEPT !.calls = <<"get", "decode">>]
        ELSE [found |-> TRUE, u |-> d.u, calls |-> <<"get", "decode", "put">>,
              put |-> TRUE, putKey |-> ck.Value]
      Cached(ck, v, g) ==
        IF g.hit
          THEN [none EXCEPT !.found = TRUE, !.u = g.u, !.calls = <<"get">>]
        ELSE Decoded(ck, decodeUser(v.s, k))
      Unescaped(ck, v) ==
        IF ~v.ok THEN none ELSE Cached(ck, v, CacheGet(c, v.s))
      Cookie(ck) ==
        IF ~ck.present \/ ck.Value = << >> THEN none
        ELSE Unescaped(ck, QueryUnescape(ck.Value))
  IN Cookie(requestCookie(hdr))

(***************************************************************************)
(* The handlers.  Each is an operator from the request and the cache to    *)
(* what the handler does: the response (status 0: the handler panicked and *)
(* the connection was closed without a response), the capability calls it  *)
(* made, the outbound backend request, and the cache.Put it makes.         *)
(***************************************************************************)
NoBackend == [sent |-> FALSE, url |-> << >>, email |-> << >>, name |-> << >>]

Outcome == [status |-> 0, location |-> << >>, setCookie |-> NoSetCookie,
            contentType |-> "", user |-> NoUser, calls |-> << >>,
            backend |-> NoBackend, put |-> FALSE, putKey |-> << >>,
            putUser |-> NoUser, token |-> << >>]

\* http.Error(w, StatusText(code), code)
httpError(code) == [Outcome EXCEPT !.status = code, !.contentType = "text/plain"]

\* serveHttpProxy(d, w, r): rq the request URL, hdr the Cookie header, inHdrs
\* the values the client sent under the two assertion header names, bk
\* whether the backend call succeeds
serveHttpProxy(d, rq, hdr, inHdrs, c, bk) ==
  LET Forward(r, asserted) ==
        [Outcome EXCEPT
           !.status = IF bk = "fail" THEN 0      \* panic(err) after c.Do
                      ELSE 200,                  \* w.WriteHeader(bp.StatusCode)
           !.user = r.u, !.calls = r.calls \o <<"backend">>,
           !.backend = [sent |-> TRUE,
                        url |-> UrlString(urlFor(d.to, rq.path, rq.query)),
                        email |-> inHdrs.email \o <<asserted>>,
                        name |-> inHdrs.name \o <<asserted>>],
           !.put = r.put, !.putKey = r.putKey, !.putUser = r.u]
      Resolved(r) ==
        IF ~r.found
          THEN [Outcome EXCEPT
                  !.status = 302, !.calls = r.calls,
                  !.location = httpRedirect(authRedirect(d, rq), rq.path)]
        ELSE Forward(r, QueryEscape(r.u.Email))
  IN Resolved(userFrom(hdr, c, key))

\* serveHttpAuth with the bug of sending a caller whose c is not valid back
\* to the provider
serveHttpAuthRedirectsInvalid(d, rq, c) ==
  LET Valid(cv, pv, g, dec) ==
        IF ~g.hit /\ ~dec.ok
          THEN [Outcome EXCEPT
                  !.status = 302, !.calls = <<"get", "decode">>,
                  !.location = httpRedirect(authRedirect(d, rq), rq.path)]
        ELSE [Outcome EXCEPT
                !.status = 302,
                !.calls = IF g.hit THEN <<"get">> ELSE <<"get", "decode">>,
                !.setCookie = SetCookie(QueryEscape(cv), CookieMaxAge),
                !.location = httpRedirect(pv, rq.path)]
      Form(cv, pv) ==
        IF cv = << >> \/ ~HasPrefix(pv, <<Chr.slash>>) THEN httpError(400)
        ELSE Valid(cv, pv, CacheGet(c, cv), decodeUser(cv, key))
  IN Form(FormValue(rq.query, Q.c), FormValue(rq.query, Q.p))

\* serveHttpAuth with the bug of redirecting before the cookie is set
serveHttpAuthNoCookie(d, rq, c) ==
  LET Valid(cv, pv, g, dec) ==
        IF ~g.hit /\ ~dec.ok
          THEN [httpError(403) EXCEPT !.calls = <<"get", "decode">>]
        ELSE [Outcome EXCEPT
                !.status = 302,
                !.calls = IF g.hit THEN <<"get">> ELSE <<"get", "decode">>,
                !.location = httpRedirect(pv, rq.path)]
      Form(cv, pv) ==
        IF cv = << >> \/ ~HasPrefix(pv, <<Chr.slash>>) THEN httpError(400)
        ELSE Valid(cv, pv, CacheGet(c, cv), decodeUser(cv, key))
  IN Form(FormValue(rq.query, Q.c), FormValue(rq.query, Q.p))

\* serveHttpAuth with the bug of verifying c before it looks at the form of
\* c and p
serveHttpAuthVerifiesFirst(d, rq, c) ==
  LET Valid(cv, pv, g, dec) ==
        IF ~g.hit /\ ~dec.ok
          THEN [httpError(403) EXCEPT !.calls = <<"get", "decode">>]
        ELSE IF cv = << >> \/ ~HasPrefix(pv, <<Chr.slash>>)
          THEN [httpError(400) EXCEPT
                  !.calls = IF g.hit THEN <<"get">> ELSE <<"get", "decode">>]
        ELSE [Outcome EXCEPT
                !.status = 302,
                !.calls = IF g.hit THEN <<"get">> ELSE <<"get", "decode">>,
                !.setCookie = SetCookie(QueryEscape(cv), CookieMaxAge),
                !.location = httpRedirect(pv, rq.path)]
      Form(cv, pv) == Valid(cv, pv, CacheGet(c, cv), decodeUser(cv, key))
  IN Form(FormValue(rq.query, Q.c), FormValue(rq.query, Q.p))

\* serveHttpAuth(d, w, r)
serveHttpAuth(d, rq, c) ==
  LET Valid(cv, pv, g, dec) ==
        IF ~g.hit /\ ~dec.ok
          THEN [httpError(403) EXCEPT !.calls = <<"get", "decode">>]
        ELSE [Outcome EXCEPT
                !.status = 302,
                !.calls = IF g.hit THEN <<"get">> ELSE <<"get", "decode">>,
                !.setCookie = SetCookie(QueryEscape(cv), CookieMaxAge),
                !.location = httpRedirect(pv, rq.path)]
      Form(cv, pv) ==
        IF cv = << >> \/ ~HasPrefix(pv, <<Chr.slash>>) THEN httpError(400)
        ELSE Valid(cv, pv, CacheGet(c, cv), decodeUser(cv, key))
  IN Form(FormValue(rq.query, Q.c), FormValue(rq.query, Q.p))

\* the provider callback with the bug of not comparing the email with the
\* configured suffix
serveCallbackSkipsDomain(rq, res) ==
  LET Session(back, v) ==
        [Outcome EXCEPT
           !.status = 302, !.user = res.profile, !.token = v,
           !.calls = <<"exchange", "fetch", "encode", "put">>,
           !.put = TRUE, !.putKey = v, !.putUser = res.profile,
           !.setCookie = SetCookie(QueryEscape(v), CookieMaxAge),
           !.location = httpRedirect(bridgeRedirect(back, v), rq.path)]
      Back(back) ==
        IF ~back.ok THEN httpError(403)
        ELSE IF res.kind = "exchangeFail"
          THEN [httpError(403) EXCEPT !.calls = <<"exchange">>]
        ELSE IF res.kind = "fetchFail"
          THEN [Outcome EXCEPT !.calls = <<"exchange", "fetch">>]
        ELSE Session(back, encode(res.profile, key))
      Form(code, stat) ==
        IF code = << >> \/ stat = << >> THEN httpError(403)
        ELSE Back(UrlParse(stat))
  IN Form(FormValue(rq.query, Q.code), FormValue(rq.query, Q.state))

\* the provider callback with the bug of storing the cache entry under the
\* cookie value, the escaped token
serveCallbackCachesCookieValue(rq, res) ==
  LET Session(back, v) ==
        [Outcome EXCEPT
           !.status = 302, !.user = res.profile, !.token = v,
           !.calls = <<"exchange", "fetch", "encode", "put">>,
           !.put = TRUE, !.putKey = QueryEscape(v), !.putUser = res.profile,
           !.setCookie = SetCookie(QueryEscape(v), CookieMaxAge),
           !.location = httpRedirect(bridgeRedirect(back, v), rq.path)]
      Back(back) ==
        IF ~back.ok THEN httpError(403)
        ELSE IF res.kind = "exchangeFail"
          THEN [httpError(403) EXCEPT !.calls = <<"exchange">>]
        ELSE IF res.kind = "fetchFail"
          THEN [Outcome EXCEPT !.calls = <<"exchange", "fetch">>]
        ELSE IF ~HasSuffix(res.profile.Email, ConfDomain)
          THEN [httpError(403) EXCEPT !.calls = <<"exchange", "fetch">>]
        ELSE Session(back, encode(res.profile, key))
      Form(code, stat) ==
        IF code = << >> \/ stat = << >> THEN httpError(403)
        ELSE Back(UrlParse(stat))
  IN Form(FormValue(rq.query, Q.code), FormValue(rq.query, Q.state))

\* the handler setup registers on authPathPrefix (the provider callback);
\* res is what the provider does with the code: "exchangeFail",
\* [kind |-> "exchangeFail"], [kind |-> "fetchFail"], or
\* [kind |-> "profile", profile |-> the user it returns]
serveCallback(rq, res) ==
  LET Session(back, v) ==
        [Outcome EXCEPT
           !.status = 302, !.user = res.profile, !.token = v,
           !.calls = <<"exchange", "fetch", "encode", "put">>,
           !.put = TRUE, !.putKey = v, !.putUser = res.profile,
           !.setCookie = SetCookie(QueryEscape(v), CookieMaxAge),
           !.location = httpRedirect(bridgeRedirect(back, v), rq.path)]
      Back(back) ==
        IF ~back.ok THEN httpError(403)
        ELSE IF res.kind = "exchangeFail"
          THEN [httpError(403) EXCEPT !.calls = <<"exchange">>]
        ELSE IF res.kind = "fetchFail"                        \* panic(err)
          THEN [Outcome EXCEPT !.calls = <<"exchange", "fetch">>]
        ELSE IF ~HasSuffix(res.profile.Email, ConfDomain)
          THEN [httpError(403) EXCEPT !.calls = <<"exchange", "fetch">>]
        ELSE Session(back, encode(res.profile, key))
      Form(code, stat) ==
        IF code = << >> \/ stat = << >> THEN httpError(403)
        ELSE Back(UrlParse(stat))
  IN Form(FormValue(rq.query, Q.code), FormValue(rq.query, Q.state))

\* the logout handler with the bug of writing to the session cache
serveLogoutTouchesCache(method) ==
  IF method # "POST" THEN httpError(405)
  ELSE [Outcome EXCEPT !.status = 200, !.contentType = "text/plain",
                       !.setCookie = SetCookie(<< >>, 0),
                       !.calls = <<"put">>, !.put = TRUE]

\* the handler setup registers on authPathPrefix + "logout"
serveLogout(method) ==
  IF method # "POST" THEN httpError(405)
  ELSE [Outcome EXCEPT !.status = 200, !.contentType = "text/plain",
                       !.setCookie = SetCookie(<< >>, 0)]

\* the handler setup registers on "/" (the admin page)
serveAdmin(rq, hdr, c) ==
  LET Page(r) ==
        [Outcome EXCEPT !.status = 200, !.contentType = "text/html",
           !.user = r.u, !.calls = r.calls, !.put = r.put,
           !.putKey = r.putKey, !.putUser = r.u]
  IN IF rq.path = <<Chr.slash>> THEN Page(userFrom(hdr, c, key))
     ELSE httpError(404)

(***************************************************************************)
(* The state machine: one action per handler, the whole handler at once,   *)
(* and one for the client receiving the response.  The requests are served *)
(* one after the other: resp holds the response on its way to the client,  *)
(* with the request it answers and the cache the handler found.            *)
(***************************************************************************)
\* the tokens handed out so far
Known == {x.token : x \in issued}

\* the Cookie headers and the values of parameter c a client can send
SendableCookies == CookiesUnsigned \cup UNION {CookieForms(t) : t \in Known}
SendableParams == ParamsUnsigned \cup UNION {ParamForms(t) : t \in Known}

Idle == [stage |-> "idle"]

\* a request: the handler op serving it, the client, the Host header, the
\* URL, the Cookie header, and what the world around the gateway does with
\* it (the method, the client's own assertion headers, whether the backend
\* answers, what the provider returns)
World == [method |-> "GET", inHdrs |-> NoHeaders, bk |-> "ok",
          provider |-> [kind |-> "none", profile |-> NoUser]]

Request(op, cl, host, rq, hdr, world) ==
  [op |-> op, client |-> cl, host |-> host, path |-> rq.path,
   query |-> rq.query, cookie |-> hdr, world |-> world]

NoResponse ==
  [req |-> Request("none", "other", Hub, [path |-> << >>, query |-> << >>],
                   << >>, World),
   out |-> Outcome, before |-> EmptyCache]

Init ==
  /\ cache = EmptyCache
  /\ jar = [h \in BrowserHosts |-> << >>]
  /\ issued = {}
  /\ resp = NoResponse
  /\ tk = Idle

\* the state after a handler with outcome out has served request req
Serve(req, out) ==
  /\ resp' = [req |-> req, out |-> out, before |-> cache]
  /\ cache' \in (IF out.put THEN CachePut(cache, out.putKey, out.putUser)
                 ELSE {cache})
  /\ issued' = IF out.token # << >>
                 THEN issued \cup {[token |-> out.token, u |-> out.user]}
                 ELSE issued
  /\ UNCHANGED <<jar, tk>>

\* who can ask host
ClientsOf(host) == {cl \in Clients : cl = "browser" => host \in BrowserHosts}

\* the Cookie header of a request: the browser sends what its jar holds
\* for the host, any other client what it likes
CookieChoices(cl, host) ==
  IF cl = "browser" THEN {jar[host]} ELSE SendableCookies

\* the values of parameter c: the browser passes on a token it was handed
ParamChoices(cl) == IF cl = "browser" THEN Known ELSE SendableParams

\* the queries of the requests under the bridge prefix: parameters c and p,
\* and none at all for a request to the logout path, which is all the
\* browser sends there
BridgeQueries(cl, path) ==
  (IF path = LogoutPath THEN {<< >>} ELSE {})
  \cup (IF path = LogoutPath /\ cl = "browser" THEN {}
        ELSE {ValuesEncode((Q.c :> cv) @@ (Q.p :> pv)) :
                cv \in ParamChoices(cl), pv \in PValues})

\* the browser sends no assertion headers of its own; the backend and the
\* client's own headers only matter to a request that is forwarded
DeliveryChoices(cl, hdr) ==
  IF ~userFrom(hdr, cache, key).found THEN {Plain}
  ELSE IF cl = "browser" THEN {dl \in Deliveries : dl.inHdrs = NoHeaders}
  ELSE Deliveries

Ready == resp.req.op = "none" /\ tk = Idle

\* a request to a route's host outside the bridge prefix
Proxy ==
  /\ Ready
  /\ \E host \in Hosts, rq \in PlainURLs :
       \E h \in {muxHandler(host, rq.path)} :
          /\ h.kind = "disp"
          /\ ~HasPrefix(rq.path, authPathPrefix)
          /\ \E cl \in ClientsOf(host) :
               \E hdr \in CookieChoices(cl, host) :
                 \E dl \in DeliveryChoices(cl, hdr) :
                   Serve(Request("proxy", cl, host, rq, hdr,
                                 [World EXCEPT !.inHdrs = dl.inHdrs,
                                               !.bk = dl.bk]),
                         serveHttpProxy(Disps[h.route], rq, hdr, dl.inHdrs,
                                        cache, dl.bk))

\* a request to a route's host under the bridge prefix
Bridge ==
  /\ Ready
  /\ \E host \in Hosts, path \in AuthPaths :
       \E h \in {muxHandler(host, path)} :
          /\ h.kind = "disp"
          /\ HasPrefix(path, authPathPrefix)
          /\ \E cl \in ClientsOf(host), method \in Methods :
               \E query \in BridgeQueries(cl, path) :
                 \E rq \in {[path |-> path, query |-> query]} :
                    Serve(Request("bridge", cl, host, rq, << >>,
                                  [World EXCEPT !.method = method]),
                          serveHttpAuth(Disps[h.route], rq, cache))

\* the provider callback
Callback ==
  /\ Ready
  /\ \E host \in Hosts :
       \E h \in {muxHandler(host, authPathPrefix)} :
          /\ h.kind = "callback"
          /\ \E cl \in ClientsOf(host), code \in CodeValues,
                stat \in StateValues, res \in ProviderResults :
               \E rq \in {[path |-> authPathPrefix,
                            query |-> ValuesEncode((Q.code :> code)
                                                      @@ (Q.state :> stat))]} :
                  Serve(Request("callback", cl, host, rq, << >>,
                                [World EXCEPT !.provider = res]),
                        serveCallback(rq, res))

\* the logout endpoint
Logout ==
  /\ Ready
  /\ \E host \in Hosts :
       \E h \in {muxHandler(host, LogoutPath)} :
          /\ h.kind = "logout"
          /\ \E cl \in ClientsOf(host), method \in Methods :
               Serve(Request("logout", cl, host,
                             [path |-> LogoutPath, query |-> << >>], << >>,
                             [World EXCEPT !.method = method]),
                     serveLogout(method))

\* the admin page and the paths nothing is registered for
Admin ==
  /\ Ready
  /\ \E host \in Hosts, rq \in PlainURLs :
       \E h \in {muxHandler(host, rq.path)} :
          /\ h.kind = "admin"
          /\ \E cl \in ClientsOf(host) :
               \E hdr \in CookieChoices(cl, host) :
                 Serve(Request("admin", cl, host, rq, hdr, World),
                       serveAdmin(rq, hdr, cache))

\* the client receives the response; the browser stores the cookie of a
\* Set-Cookie header for the host it asked
Receive ==
  /\ resp.req.op # "none"
  /\ jar' = IF resp.req.client = "browser" /\ resp.out.setCookie.set
                 /\ resp.out.status # 0
              THEN [jar EXCEPT ![resp.req.host] = resp.out.setCookie.Value]
              ELSE jar
  /\ resp' = NoResponse
  /\ UNCHANGED <<cache, issued, tk>>

Next == Proxy \/ Bridge \/ Callback \/ Logout \/ Admin \/ Receive

Spec == Init /\ [][Next]_vars

(***************************************************************************)
(* The token functions on their own: an identity and a key are drawn, the  *)
(* identity is encoded under the key, the token is decoded under it.       *)
(***************************************************************************)
\* the longest name drawn
MaxName == 3

\* emails "a@o", "ab@o"; names "", "N", "NN", .., and "N\"n"; picture URLs
\* "", "p", "pq"
Emails == {<<97, 64, 111>>, <<97, 98, 64, 111>>}
Names == {[i \in 1..n |-> 78] : n \in 0..MaxName} \cup {<<78, 34, 110>>}
Pictures == {<< >>, <<112>>, <<112, 113>>}

Identities == {User(e, n, p) : e \in Emails, n \in Names, p \in Pictures}

Keys == {key, EvilKey}

Drawn(u, k) ==
  [stage |-> "drawn", u |-> u, k |-> k, token |-> << >>,
   dec |-> [ok |-> FALSE, u |-> NoUser],
   sent |-> << >>, part |-> "none", dk |-> k,
   scan |-> [sigLen |-> -1, compared |-> 0]]

InitToken ==
  /\ cache = EmptyCache
  /\ jar = [h \in BrowserHosts |-> << >>]
  /\ issued = {}
  /\ resp = NoResponse
  /\ tk \in {Drawn(u, k) : u \in Identities, k \in Keys}

\* v, err := u.encode(key)
Encode ==
  /\ tk.stage = "drawn"
  /\ \E v \in {encode(tk.u, tk.k)} :
       tk' = [tk EXCEPT !.stage = "encoded", !.token = v, !.sent = v]
  /\ UNCHANGED <<cache, jar, issued, resp>>

\* u, err := decodeUser(v, key)
Decode ==
  /\ tk.stage = "encoded"
  /\ tk' = [tk EXCEPT !.stage = "decoded", !.dec = decodeUser(tk.token, tk.k)]
  /\ UNCHANGED <<cache, jar, issued, resp>>

\* the characters a character of a token is changed to: for a character of
\* the base64 alphabet the ones whose value differs in the lowest and in
\* the highest bit, for the padding '=' the letter 'A'
Changed(c) ==
  LET Of(v) == IF v < 0 THEN {65}
               ELSE {B64Char(IF v % 2 = 0 THEN v + 1 ELSE v - 1),
                     B64Char((v + 32) % 64)}
  IN Of(B64Val(c))

\* the strings a caller makes of token t by changing one character of its
\* signature part or of its payload part, and by cutting the last four
\* characters off the signature
Tampered(t) ==
  LET PartOf(i, comma) == IF i < comma THEN "signature" ELSE "payload"
      One(comma) ==
        UNION {{[part |-> PartOf(i, comma), s |-> [t EXCEPT ![i] = c]] :
                  c \in Changed(t[i])} : i \in (1..Len(t)) \ {comma}}
        \cup {[part |-> "cut",
               s |-> Sub(t, 1, comma - 5) \o Sub(t, comma, Len(t))]}
  IN One(IndexByte(t, Chr.comma))

\* a caller changes the token before it presents it
Tamper ==
  /\ tk.stage = "encoded"
  /\ \E x \in Tampered(tk.token) :
       tk' = [tk EXCEPT !.stage = "tampered", !.sent = x.s, !.part = x.part]
  /\ UNCHANGED <<cache, jar, issued, resp>>

\* decodeUser(c, key) of the string presented, under the key it was encoded
\* with or under another one
Verify ==
  /\ tk.stage \in {"encoded", "tampered"}
  /\ \E dk \in Keys :
       \E s \in {SplitN2(tk.sent)} :
         tk' = [tk EXCEPT !.stage = "verified", !.dk = dk,
                          !.dec = decodeUser(tk.sent, dk),
                          !.scan = validMessageCompared(dk, s[1], s[2])]
  /\ UNCHANGED <<cache, jar, issued, resp>>

NextToken == Encode \/ Decode \/ Tamper \/ Verify

SpecToken == InitToken /\ [][NextToken]_vars

(***************************************************************************)
(* The properties                                                          *)
(***************************************************************************)
\* the value of parameter name of the request the response answers
FormOf(name) == FormValue(resp.req.query, name)

\* the string s is a cache hit in c or a token that decodes and verifies
Acceptable(s, c) == s \in DOMAIN c \/ decodeUser(s, key).ok

\* the Cookie header hdr gives no identity under cache c: no or an empty
\* cookie, one that cannot be unescaped, or one that is neither a cache hit
\* nor a token that decodes and verifies
NoIdentity(hdr, c) ==
  \/ hdr = << >>
  \/ ~QueryUnescape(hdr).ok
  \/ ~Acceptable(QueryUnescape(hdr).s, c)

\* the absolute URL of the request the response answers
AbsoluteURL ==
  SchemeHttp \o <<Chr.colon>> \o SlashSlash \o resp.req.host \o resp.req.path
    \o (IF resp.req.query = << >> THEN << >>
        ELSE <<Chr.qmark>> \o resp.req.query)

\* the parameters of the URL in the Location header
LocationParam(name) == FormValue(UrlParse(resp.out.location).RawQuery, name)

\* C1: a request is forwarded to a backend only when the token presented in
\* its session cookie (the cookie value, unescaped) was issued by a
\* successful provider callback of this process, for an identity whose
\* email ends with the configured suffix.
C1_OnlyIssuedTokensForwarded ==
  resp.out.backend.sent =>
    \E x \in issued : /\ x.token = QueryUnescape(resp.req.cookie).s
                      /\ HasSuffix(x.u.Email, ConfDomain)

\* a request is forwarded whose cookie is an issued token escaped twice: the
\* string it presents is no token
C1_EscapedTokenForwarded ==
  /\ resp.out.backend.sent
  /\ \E x \in issued : resp.req.cookie = QueryEscape(QueryEscape(x.token))
  /\ ~decodeUser(QueryUnescape(resp.req.cookie).s, key).ok

\* what does hold of every forwarded request: the identity it is forwarded
\* for was issued by a successful callback and its email has the suffix
ForwardedIdentityIssued ==
  resp.out.backend.sent =>
    \E x \in issued : /\ x.u = resp.out.user
                      /\ HasSuffix(x.u.Email, ConfDomain)

\* C2: a request to a leaf host outside the bridge prefix whose cookie gives
\* no identity is answered 302 to the provider's authorization URL, with
\* state the absolute URL of the request and the domain hint; no backend
\* request is made and the cache is unchanged.
C2_NoIdentityRedirects ==
  (resp.req.op = "proxy" /\ NoIdentity(resp.req.cookie, resp.before)) =>
    /\ resp.out.status = 302
    /\ HasPrefix(resp.out.location, AuthURL \o <<Chr.qmark>>)
    /\ LocationParam(Q.state) = AbsoluteURL
    /\ LocationParam(Q.hd) = ConfDomain
    /\ ~resp.out.backend.sent
    /\ cache = resp.before

\* a request with a query and a cookie signed under another key was
\* redirected
C2_ForgedCookieRedirected ==
  /\ resp.req.op = "proxy"
  /\ resp.req.cookie = QueryEscape(Forged)
  /\ resp.req.query # << >>
  /\ resp.out.status = 302

\* C3: decoding the token of an identity under the key it was encoded with
\* succeeds and returns the identity, for every identity and key.
C3_RoundTrip ==
  tk.stage = "decoded" => tk.dec.ok /\ tk.dec.u = tk.u

\* a token whose signature verifies and whose decoding fails
C3_SignedTokenUndecodable ==
  /\ tk.stage = "decoded"
  /\ validMessage(tk.k, SplitN2(tk.token)[1], SplitN2(tk.token)[2])
  /\ ~tk.dec.ok

\* C4: once the callback has issued a token for an identity of the
\* organization and the bridge endpoint has set the browser's cookie on a
\* leaf host to it, every request of the browser to that host with that
\* cookie is forwarded and not redirected to the provider, whatever the
\* cache holds.
C4_CookieHolderForwarded ==
  (/\ resp.req.op = "proxy"
   /\ resp.req.client = "browser"
   /\ \E x \in issued : /\ HasSuffix(x.u.Email, ConfDomain)
                        /\ resp.req.cookie = QueryEscape(x.token)) =>
    resp.out.backend.sent /\ resp.out.status # 302

\* the browser's request with the cookie the bridge set was redirected to
\* the provider
C4_CookieHolderRedirected ==
  /\ resp.req.op = "proxy"
  /\ resp.req.client = "browser"
  /\ \E x \in issued : resp.req.cookie = QueryEscape(x.token)
  /\ resp.out.status = 302
  /\ ~resp.out.backend.sent

\* the bridge request of a leaf host with parameters c = t and p = "/"
BridgeRequest(t) ==
  [path |-> authPathPrefix,
   query |-> ValuesEncode((Q.c :> t) @@ (Q.p :> <<Chr.slash>>))]

\* C5: for every token whose signature verifies under the key and every
\* reachable cache, userFrom finds the same identity and the bridge
\* endpoint accepts or rejects alike with that cache and with a cache that
\* has no entry.
C5_CacheTransparency ==
  \A x \in issued :
    validMessage(key, SplitN2(x.token)[1], SplitN2(x.token)[2]) =>
      /\ userFrom(QueryEscape(x.token), cache, key).found
           = userFrom(QueryEscape(x.token), EmptyCache, key).found
      /\ userFrom(QueryEscape(x.token), cache, key).u
           = userFrom(QueryEscape(x.token), EmptyCache, key).u
      /\ serveHttpAuth(Disps[1], BridgeRequest(x.token), cache).status
           = serveHttpAuth(Disps[1], BridgeRequest(x.token), EmptyCache).status

\* the cache holds a token whose signature verifies and that does not decode
C5_HitForUndecodableToken ==
  \E x \in issued :
    /\ x.token \in DOMAIN cache
    /\ validMessage(key, SplitN2(x.token)[1], SplitN2(x.token)[2])
    /\ ~decodeUser(x.token, key).ok

\* C6: every key of the cache is a string that decodeUser accepts under the
\* key, and it is mapped to the identity decodeUser returns for it.
C6_CacheKeysDecode ==
  \A s \in DOMAIN cache :
    decodeUser(s, key).ok /\ decodeUser(s, key).u = cache[s]

\* the cache holds the escaped form of an issued token as a key
C6_EscapedKeyCached ==
  \E x \in issued :
    /\ decodeUser(x.token, key).ok
    /\ QueryEscape(x.token) \in DOMAIN cache
    /\ ~decodeUser(QueryEscape(x.token), key).ok

\* C7: on the bridge endpoint of a leaf host, with c present and p rooted, a
\* c that is neither a cache hit nor a token that decodes and verifies is
\* answered 403 without Location and without Set-Cookie, and the cache is
\* unchanged.
C7_InvalidTokenForbidden ==
  (/\ resp.req.op = "bridge"
   /\ FormOf(Q.c) # << >>
   /\ HasPrefix(FormOf(Q.p), <<Chr.slash>>)
   /\ ~Acceptable(FormOf(Q.c), resp.before)) =>
    /\ resp.out.status = 403
    /\ resp.out.location = << >>
    /\ ~resp.out.setCookie.set
    /\ cache = resp.before

\* the bridge endpoint refused the signature of an issued token in front of
\* another payload
C7_SplicedTokenForbidden ==
  /\ resp.req.op = "bridge"
  /\ \E x \in issued : FormOf(Q.c) = Spliced(x.token)
  /\ HasPrefix(FormOf(Q.p), <<Chr.slash>>)
  /\ resp.out.status = 403

\* the callback request is one the handler rejects before the exchange
RejectedEarly ==
  \/ FormOf(Q.code) = << >>
  \/ FormOf(Q.state) = << >>
  \/ ~UrlParse(FormOf(Q.state)).ok

\* C8: the provider callback answers every rejection (code or state
\* missing, state no URL, exchange failed, email without the suffix) with
\* 403, sets no cookie, sends no Location, encodes no token and leaves the
\* cache unchanged; it does not call the exchange when code or state is
\* missing or state is no URL.
C8_RejectionsHaveNoEffect ==
  (/\ resp.req.op = "callback"
   /\ \/ RejectedEarly
      \/ resp.req.world.provider.kind = "exchangeFail"
      \/ /\ resp.req.world.provider.kind = "profile"
         /\ ~HasSuffix(resp.req.world.provider.profile.Email, ConfDomain)) =>
    /\ resp.out.status = 403
    /\ ~resp.out.setCookie.set
    /\ resp.out.location = << >>
    /\ resp.out.token = << >>
    /\ \A i \in 1..Len(resp.out.calls) : resp.out.calls[i] # "encode"
    /\ cache = resp.before
    /\ RejectedEarly => resp.out.calls = << >>

\* the callback refused a profile from outside the organization
C8_OutsiderForbidden ==
  /\ resp.req.op = "callback"
  /\ ~RejectedEarly
  /\ resp.req.world.provider.kind = "profile"
  /\ ~HasSuffix(resp.req.world.provider.profile.Email, ConfDomain)
  /\ resp.out.status = 403

\* the path of the URL s followed by '?' and its query when it has one
PathAndQuery(s) ==
  UrlParse(s).Path \o (IF UrlParse(s).RawQuery = << >> THEN << >>
                       ELSE <<Chr.qmark>> \o UrlParse(s).RawQuery)

\* C9: the provider callback with code and state present, state a URL, the
\* exchange and the profile request successful and the email ending with
\* the suffix: the token is encode(identity, key), the cache maps it to the
\* identity, a cookie with the escaped token, path "/" and max-age 3600 is
\* set, and the answer is 302 to http://<host of state><bridge prefix> with
\* p the path and query of state and c the token.
C9_CallbackIssuesSession ==
  (/\ resp.req.op = "callback"
   /\ ~RejectedEarly
   /\ resp.req.world.provider.kind = "profile"
   /\ HasSuffix(resp.req.world.provider.profile.Email, ConfDomain)) =>
    /\ resp.out.token = encode(resp.req.world.provider.profile, key)
    /\ resp.out.token \in DOMAIN cache
    /\ cache[resp.out.token] = resp.req.world.provider.profile
    /\ resp.out.setCookie = [set |-> TRUE, Value |-> QueryEscape(resp.out.token),
                             Path |-> <<Chr.slash>>, MaxAge |-> 3600]
    /\ resp.out.status = 302
    /\ UrlParse(resp.out.location).Scheme = SchemeHttp
    /\ UrlParse(resp.out.location).Host = UrlParse(FormOf(Q.state)).Host
    /\ UrlParse(resp.out.location).Path = authPathPrefix
    /\ LocationParam(Q.p) = PathAndQuery(FormOf(Q.state))
    /\ LocationParam(Q.c) = resp.out.token

\* the callback issued a session for a state URL with a query
C9_SessionForStateWithQuery ==
  /\ resp.req.op = "callback"
  /\ resp.req.world.provider.kind = "profile"
  /\ UrlParse(FormOf(Q.state)).RawQuery # << >>
  /\ resp.out.status = 302
  /\ resp.out.token # << >>

\* the bridge request is one with c present, p rooted and c valid
BridgeAccepts ==
  /\ resp.req.op = "bridge"
  /\ FormOf(Q.c) # << >>
  /\ HasPrefix(FormOf(Q.p), <<Chr.slash>>)
  /\ Acceptable(FormOf(Q.c), resp.before)

\* the cookie the bridge endpoint sets for c: the escaped c, path "/",
\* max-age 3600
BridgeCookie ==
  [set |-> TRUE, Value |-> QueryEscape(FormOf(Q.c)), Path |-> <<Chr.slash>>,
   MaxAge |-> 3600]

\* p with its path made clean (path.Clean, a trailing slash kept) and its
\* query as it is
CleanTarget(p) ==
  LET i == IndexByte(p, Chr.qmark)
      pth == IF i = 0 THEN p ELSE Sub(p, 1, i - 1)
      query == IF i = 0 THEN << >> ELSE Sub(p, i, Len(p))
      cl == pathClean(pth)
  IN cl \o (IF pth[Len(pth)] = Chr.slash /\ cl # <<Chr.slash>>
              THEN <<Chr.slash>> ELSE << >>) \o query

BadBridgeParameters ==
  /\ resp.req.op = "bridge"
  /\ FormOf(Q.c) = << >> \/ ~HasPrefix(FormOf(Q.p), <<Chr.slash>>)

\* C11: on the bridge endpoint, a request without c or with a p that does
\* not start with '/' is answered 400, with no cookie and no Location,
\* before any cache lookup or token verification (so also when c is a
\* valid token, whatever the cache holds), and the cache is unchanged.
C11_BadParametersBadRequest ==
  BadBridgeParameters =>
    /\ resp.out.status = 400
    /\ ~resp.out.setCookie.set
    /\ resp.out.location = << >>
    /\ resp.out.calls = << >>
    /\ cache = resp.before

\* the bridge endpoint answered 400 to a request whose c is a token that is
\* in the cache and decodes, and whose p is not rooted
C11_CachedTokenBadPath ==
  /\ BadBridgeParameters
  /\ FormOf(Q.c) \in DOMAIN resp.before
  /\ decodeUser(FormOf(Q.c), key).ok
  /\ resp.out.status = 400

\* the request is one to the logout path of a frontend host
LogoutRequest ==
  /\ resp.req.op # "none"
  /\ resp.req.host \in Hosts
  /\ resp.req.path = LogoutPath

\* C12: on the hub and on every leaf host, a POST to the logout path is
\* answered 200 text/plain with the host's session cookie set to the empty
\* value with max-age 0, and a request with another method to that path is
\* answered 405 with no cookie set.
C12_LogoutOnEveryHost ==
  LogoutRequest =>
    IF resp.req.world.method = "POST"
      THEN /\ resp.out.status = 200
           /\ resp.out.contentType = "text/plain"
           /\ resp.out.setCookie = [set |-> TRUE, Value |-> << >>,
                                    Path |-> <<Chr.slash>>, MaxAge |-> 0]
      ELSE /\ resp.out.status = 405
           /\ ~resp.out.setCookie.set

\* the browser's POST to the logout path of a leaf host, without parameters,
\* was answered 400 by the bridge endpoint and its cookie was left alone
C12_LeafLogoutBadRequest ==
  /\ LogoutRequest
  /\ resp.req.host # Hub
  /\ resp.req.client = "browser"
  /\ resp.req.world.method = "POST"
  /\ resp.req.query = << >>
  /\ jar[resp.req.host] # << >>
  /\ resp.out.status = 400
  /\ ~resp.out.setCookie.set

\* what does hold on the hub: POST clears the cookie, any other method is
\* answered 405
HubLogout ==
  (LogoutRequest /\ resp.req.host = Hub) =>
    IF resp.req.world.method = "POST"
      THEN resp.out.status = 200 /\ resp.out.setCookie.set
           /\ resp.out.setCookie.Value = << >>
      ELSE resp.out.status = 405 /\ ~resp.out.setCookie.set

\* the browser's request for "/" to the leaf host h would be forwarded, with
\* the cookie it holds for h in jar j and the cache c
StillProxied(h, j, c) ==
  \E i \in 1..Len(Disps) :
    /\ Disps[i].from = h
    /\ serveHttpProxy(Disps[i], [path |-> <<Chr.slash>>, query |-> << >>],
                      j[h], NoHeaders, c, "ok").backend.sent

\* C13: a request to the logout path of a host, when it is served and when
\* its response is received, leaves the session cache and the issued tokens
\* as they are and changes no cookie of the caller but the one of that
\* host; a request to another host whose cookie was proxied before the
\* logout is proxied after it.
C13_LogoutFrame ==
  [][/\ (resp.req.op = "none" /\ resp'.req.op # "none"
          /\ resp'.req.path = LogoutPath) =>
            cache' = cache /\ issued' = issued /\ jar' = jar
     /\ (resp.req.op # "none" /\ resp.req.path = LogoutPath
          /\ resp'.req.op = "none") =>
            /\ cache' = cache /\ issued' = issued
            /\ \A h \in BrowserHosts \ {resp.req.host} :
                 /\ jar'[h] = jar[h]
                 /\ StillProxied(h, jar, cache) => StillProxied(h, jar', cache')]_vars

\* the browser has logged out on the hub (200, cookie cleared) while it
\* holds a cookie for a leaf host with which its requests are proxied
C13_LoggedOutOnHubOnly ==
  /\ resp.req.op = "logout"
  /\ resp.req.client = "browser"
  /\ resp.req.host = Hub
  /\ resp.out.status = 200
  /\ resp.out.setCookie.set
  /\ jar[Hub] # << >>
  /\ \E h \in BrowserHosts \ {Hub} : jar[h] # << >> /\ StillProxied(h, jar, cache)

\* the value the gateway itself adds under a header name: the last one
LastValue(vals) == vals[Len(vals)]

\* C14: the backend request of every proxied request carries an email
\* assertion header whose value is the escaped email of the resolved
\* identity and a name assertion header whose value is its escaped display
\* name.
C14_AssertsEmailAndName ==
  resp.out.backend.sent =>
    /\ LastValue(resp.out.backend.email) = QueryEscape(resp.out.user.Email)
    /\ LastValue(resp.out.backend.name) = QueryEscape(resp.out.user.Name)

\* a request was forwarded whose name assertion header carries the escaped
\* email and not the name
C14_NameHeaderCarriesEmail ==
  /\ resp.out.backend.sent
  /\ resp.out.user.Name # resp.out.user.Email
  /\ LastValue(resp.out.backend.name) = QueryEscape(resp.out.user.Email)
  /\ LastValue(resp.out.backend.name) # QueryEscape(resp.out.user.Name)

\* what does hold: the email assertion header carries the escaped email
EmailAsserted ==
  resp.out.backend.sent =>
    LastValue(resp.out.backend.email) = QueryEscape(resp.out.user.Email)

\* C15: validMessage compares no byte when the decoded signature and the
\* expected code differ in length, and compares every byte of a signature
\* of the right length, wherever the first mismatch is.
C15_FullScan ==
  (tk.stage = "verified" /\ tk.scan.sigLen >= 0) =>
    IF tk.scan.sigLen # Sha256Size THEN tk.scan.compared = 0
    ELSE tk.scan.compared = Sha256Size

\* a signature of the right length was rejected before its last byte was
\* compared
C15_StoppedAtFirstMismatch ==
  /\ tk.stage = "verified"
  /\ tk.scan.sigLen = Sha256Size
  /\ tk.scan.compared < Sha256Size
  /\ ~tk.dec.ok

\* what does hold: a signature of another length is rejected without a
\* comparison, a valid one is compared in full
LengthCheckedFirst ==
  tk.stage = "verified" =>
    /\ tk.scan.sigLen # Sha256Size => tk.scan.compared = 0 /\ ~tk.dec.ok
    /\ validMessage(tk.dk, SplitN2(tk.sent)[1], SplitN2(tk.sent)[2]) =>
         tk.scan.compared = Sha256Size

\* a signature of another length was presented
ShortSignaturePresented ==
  tk.stage = "verified" /\ tk.part = "cut" /\ tk.scan.sigLen = Sha256Size - 2

\* C16: a token of which one character of the signature part or of the
\* payload part was changed is rejected by decodeUser, under the key it was
\* encoded with and under every other key.
C16_TamperDetected ==
  (tk.stage = "verified" /\ tk.part \in {"signature", "payload"}) => ~tk.dec.ok

\* decodeUser accepted, under the key, a token whose signature part differs
\* from the one issued in one character, and returned the identity
C16_ChangedSignatureAccepted ==
  /\ tk.stage = "verified"
  /\ tk.part = "signature"
  /\ tk.sent # tk.token
  /\ Len(tk.sent) = Len(tk.token)
  /\ tk.dk = tk.k
  /\ tk.dec.ok
  /\ tk.dec.u = tk.u

\* what does hold: a change of the payload part is detected, and so is a
\* change of the signature part that changes the bytes it decodes to
DecodedChangeDetected ==
  (/\ tk.stage = "verified"
   /\ \/ tk.part = "payload"
      \/ /\ tk.part = "signature"
         /\ DecodeString(SplitN2(tk.sent)[1]) # DecodeString(SplitN2(tk.token)[1])) =>
    ~tk.dec.ok

\* the response answers a forwarded request whose backend call failed
BackendFailed ==
  /\ resp.req.op = "proxy"
  /\ resp.out.backend.sent
  /\ resp.req.world.bk = "fail"

\* C17: a forwarded request whose backend call fails at transport level is
\* answered with status 502 or 500, never left without a response, and the
\* server goes on serving.
C17_BackendFailureAnswered ==
  BackendFailed =>
    /\ resp.out.status \in {500, 502}
    /\ ENABLED Receive

\* the handler of a forwarded request panicked after the backend call
\* failed: the request ended without a response
C17_FailureWithoutResponse ==
  /\ BackendFailed
  /\ resp.out.status = 0
  /\ resp.out.contentType = ""

\* what does hold: after a backend failure the server takes the next
\* request
ServesAfterFailure ==
  [][(BackendFailed /\ resp'.req.op = "none") => Ready']_vars

\* the response answers a request whose cookie userFrom resolved by
\* decoding it after a cache miss, storing an entry
ResolvedByDecode ==
  /\ resp.req.op \in {"proxy", "admin"}
  /\ resp.out.put
  /\ Len(resp.out.calls) >= 3
  /\ SubSeq(resp.out.calls, 1, 3) = <<"get", "decode", "put">>

\* C18: once userFrom has resolved a cookie by decoding it after a cache
\* miss, the entry it stored is under the string its lookup uses: the next
\* request with the same cookie is resolved by a cache hit, without a call
\* of decodeUser.
C18_DecodeMemoized ==
  ResolvedByDecode =>
    /\ resp.out.putKey = QueryUnescape(resp.req.cookie).s
    /\ userFrom(resp.req.cookie, cache, key).calls = <<"get">>

\* the entry was stored under the escaped cookie value, and the same cookie
\* presented again is a miss that is decoded again
C18_DecodedAgain ==
  /\ ResolvedByDecode
  /\ resp.out.putKey = resp.req.cookie
  /\ resp.out.putKey \in DOMAIN cache
  /\ resp.out.putKey # QueryUnescape(resp.req.cookie).s
  /\ userFrom(resp.req.cookie, cache, key).calls = <<"get", "decode", "put">>

\* the response answers a verification of the issued token t: the bridge
\* check of c = t with a rooted p, or the lookup of a cookie carrying t
IssuedTokenVerified(t) ==
  \/ /\ resp.req.op = "bridge"
     /\ FormOf(Q.c) = t
     /\ HasPrefix(FormOf(Q.p), <<Chr.slash>>)
  \/ /\ resp.req.op \in {"proxy", "admin"}
     /\ resp.req.path = <<Chr.slash>>
     /\ resp.req.cookie = QueryEscape(t)

\* the verification was a cache hit that did not call decodeUser
CacheHit ==
  /\ Len(resp.out.calls) >= 1
  /\ resp.out.calls[1] = "get"
  /\ \A i \in 1..Len(resp.out.calls) : resp.out.calls[i] # "decode"

\* C19 as stated: every verification of an issued token, on any host and
\* after any requests and logins of others, is a cache hit that does not
\* call decodeUser.
C19_HitInEveryInterleaving ==
  \A x \in issued : IssuedTokenVerified(x.token) => CacheHit

\* C19 as the code has it: the callback stores the token under the string
\* the bridge check and the cookie lookup use, on every host, so that the
\* verification following the callback is a cache hit without decodeUser;
\* and so is every later one for which the entry is still in the cache.
C19_HitUntilEvicted ==
  /\ (resp.req.op = "callback" /\ resp.out.token # << >>) =>
       /\ \A i \in 1..Len(Disps) :
            serveHttpAuth(Disps[i], BridgeRequest(resp.out.token), cache).calls
              = <<"get">>
       /\ userFrom(QueryEscape(resp.out.token), cache, key).calls = <<"get">>
  /\ \A x \in issued :
       (IssuedTokenVerified(x.token) /\ x.token \in DOMAIN resp.before) =>
         CacheHit

\* the bridge check of an issued token on a leaf host was a cache hit
C19_BridgeHitOnLeaf ==
  /\ resp.req.op = "bridge"
  /\ resp.req.host # Hub
  /\ \E x \in issued : IssuedTokenVerified(x.token)
  /\ resp.out.calls = <<"get">>
  /\ resp.out.status = 302

\* the bridge check of an issued token after the login of another user was
\* a cache miss that called decodeUser
EvictedTokenDecoded ==
  /\ resp.req.op = "bridge"
  /\ \E x \in issued : IssuedTokenVerified(x.token)
                          /\ x.token \notin DOMAIN resp.before
  /\ resp.out.calls = <<"get", "decode">>

\* the token is empty or malformed: it has no comma, or its signature part
\* is no base64
Malformed(t) ==
  \/ t = << >>
  \/ Len(SplitN2(t)) # 2
  \/ ~DecodeString(SplitN2(t)[1]).ok

\* the token the request presents: parameter c on the bridge endpoint, the
\* unescaped cookie elsewhere
PresentedToken ==
  IF resp.req.op = "bridge" THEN FormOf(Q.c)
  ELSE QueryUnescape(resp.req.cookie).s

\* C20: decodeUser returns an error for the empty token and for every
\* malformed one, and the dispatcher and the bridge endpoint handle a
\* request that presents such a token without any cache operation, get or
\* put.
C20_MalformedFailsFast ==
  (/\ resp.req.op \in {"proxy", "bridge"}
   /\ QueryUnescape(resp.req.cookie).ok
   /\ Malformed(PresentedToken)) =>
    /\ ~decodeUser(PresentedToken, key).ok
    /\ resp.out.calls = << >>
    /\ cache = resp.before

\* a token without a comma was looked up in the cache before decodeUser
\* rejected it
C20_MalformedLookedUp ==
  /\ resp.req.op \in {"proxy", "bridge"}
  /\ PresentedToken = Garbage
  /\ (resp.req.op = "bridge" => HasPrefix(FormOf(Q.p), <<Chr.slash>>))
  /\ resp.out.calls = <<"get", "decode">>

\* what does hold: decodeUser rejects the empty and the malformed token,
\* no entry is stored for it, and the empty token is handled without any
\* cache operation
MalformedRejected ==
  (/\ resp.req.op \in {"proxy", "bridge"}
   /\ QueryUnescape(resp.req.cookie).ok
   /\ Malformed(PresentedToken)) =>
    /\ ~decodeUser(PresentedToken, key).ok
    /\ ~resp.out.put
    /\ cache = resp.before
    /\ PresentedToken = << >> => resp.out.calls = << >>

\* a token whose signature part is no base64 was presented and rejected
BadSignatureRejected ==
  /\ resp.req.op = "bridge"
  /\ PresentedToken = BadSignature
  /\ resp.out.status = 403

\* the values of an assertion header that come from the identity the
\* request was resolved to: its escaped email or its escaped name
FromIdentity(u) == {QueryEscape(u.Email), QueryEscape(u.Name)}

\* C21: in the backend request of every proxied request, every value of
\* the two identity-assertion headers, the first one in particular, comes
\* from the verified identity; no value the client sent under these names
\* is passed on.
C21_AssertionNotSpoofable ==
  resp.out.backend.sent =>
    /\ \A i \in 1..Len(resp.out.backend.email) :
         resp.out.backend.email[i] \in FromIdentity(resp.out.user)
    /\ \A i \in 1..Len(resp.out.backend.name) :
         resp.out.backend.name[i] \in FromIdentity(resp.out.user)
    /\ Len(resp.out.backend.email) = 1
    /\ Len(resp.out.backend.name) = 1

\* a request was forwarded whose assertion headers carry the client's own
\* value first and the gateway's value after it
C21_ClientValueFirst ==
  /\ resp.out.backend.sent
  /\ resp.req.world.inHdrs = Spoofed
  /\ Len(resp.out.backend.email) = 2
  /\ resp.out.backend.email[1] = Spoofed.email[1]
  /\ resp.out.backend.email[1] \notin FromIdentity(resp.out.user)
  /\ resp.out.backend.name[1] = Spoofed.name[1]

\* what does hold: without assertion headers of the client's own the
\* backend request carries the gateway's values only
OnlyGatewayValuesWhenNoneSent ==
  (resp.out.backend.sent /\ resp.req.world.inHdrs = NoHeaders) =>
    /\ resp.out.backend.email = <<QueryEscape(resp.out.user.Email)>>
    /\ Len(resp.out.backend.name) = 1

\* the from-hosts of the route table
RouteHosts == {Disps[i].from : i \in 1..Len(Disps)}

\* the response is the redirect of a successful provider callback, carrying
\* the token it issued in parameter c
TokenRedirected ==
  /\ resp.req.op = "callback"
  /\ resp.out.token # << >>
  /\ resp.out.status = 302
  /\ LocationParam(Q.c) = resp.out.token

\* C22: the redirect of every successful provider callback, which carries
\* the token in parameter c, goes to the from-host of a route; a state that
\* is a URL with a host outside the route table causes no redirect with
\* the token to that host.
C22_TokenOnlyToRouteHosts ==
  TokenRedirected => UrlParse(resp.out.location).Host \in RouteHosts

\* the callback redirected to the host of a state URL that is no route,
\* with the token in parameter c
C22_TokenSentOutside ==
  /\ TokenRedirected
  /\ UrlParse(FormOf(Q.state)).ok
  /\ UrlParse(FormOf(Q.state)).Host \notin RouteHosts \cup {Hub}
  /\ UrlParse(resp.out.location).Host = UrlParse(FormOf(Q.state)).Host

\* what does hold: the token goes to the host of the state URL, which is a
\* route host whenever the state names one
TokenStaysOnRoutes ==
  (TokenRedirected /\ UrlParse(FormOf(Q.state)).Host \in RouteHosts) =>
    UrlParse(resp.out.location).Host \in RouteHosts

====
